---- MODULE Spec2Model ----
(***************************************************************************)
(* Voice assistant of src/pythons.py: the bounded, persisted conversation  *)
(* history (ConversationHistory), the built-in command router              *)
(* (check_for_commands), the deferred timers (set_timer) and the           *)
(* wake / capture / dispatch / speak loop (AdvancedVoiceAssistant.run).    *)
(* src/raspai_advanced.py is a variant with the same ConversationHistory   *)
(* and a shorter command table.                                            *)
(*                                                                         *)
(* Python strings are atomic values here; Chars gives the characters of    *)
(* every string the matching code looks into, so that `in`, lower() and    *)
(* re.search are computed on characters as the code computes them.         *)
(***************************************************************************)
EXTENDS Integers, Sequences, FiniteSets, TLC

\* Bounds of the model.
max_length == 3        \* ConversationHistory(max_length=...); the default is 10
MaxAppends == 5        \* add_interaction calls explored when the store is called directly
MaxModelTurns == 1     \* add_interaction calls explored in one run of the loop
MaxTimers  == 2        \* Timer objects explored in one run
MaxWindow  == 4        \* num_turns arguments explored: 0..MaxWindow

\* Program constants.
DefaultNumTurns == 3

None == "<None>"

Max(a, b) == IF a >= b THEN a ELSE b
Min(a, b) == IF a <= b THEN a ELSE b

Chars(s) ==
  CASE s = "stop" -> <<"s","t","o","p">>
    [] s = "exit" -> <<"e","x","i","t">>
    [] s = "quit" -> <<"q","u","i","t">>
    [] s = "bye" -> <<"b","y","e">>
    [] s = "goodbye" -> <<"g","o","o","d","b","y","e">>
    [] s = "what time is it" -> <<"w","h","a","t"," ","t","i","m","e"," ","i","s"," ","i","t">>
    [] s = "tell me the time" -> <<"t","e","l","l"," ","m","e"," ","t","h","e"," ","t","i","m","e">>
    [] s = "current time" -> <<"c","u","r","r","e","n","t"," ","t","i","m","e">>
    [] s = "what day is it" -> <<"w","h","a","t"," ","d","a","y"," ","i","s"," ","i","t">>
    [] s = "tell me the date" -> <<"t","e","l","l"," ","m","e"," ","t","h","e"," ","d","a","t","e">>
    [] s = "current date" -> <<"c","u","r","r","e","n","t"," ","d","a","t","e">>
    [] s = "what's today's date" -> <<"w","h","a","t","'","s"," ","t","o","d","a","y","'","s"," ","d","a","t","e">>
    [] s = "weather" -> <<"w","e","a","t","h","e","r">>
    [] s = "forecast" -> <<"f","o","r","e","c","a","s","t">>
    [] s = "climate" -> <<"c","l","i","m","a","t","e">>
    [] s = "set timer of" -> <<"s","e","t"," ","t","i","m","e","r"," ","o","f">>
    [] s = "set timer for" -> <<"s","e","t"," ","t","i","m","e","r"," ","f","o","r">>
    [] s = "send email" -> <<"s","e","n","d"," ","e","m","a","i","l">>
    [] s = "send mail" -> <<"s","e","n","d"," ","m","a","i","l">>
    [] s = "send gmail" -> <<"s","e","n","d"," ","g","m","a","i","l">>
    [] s = "sent mail" -> <<"s","e","n","t"," ","m","a","i","l">>
    [] s = "sent email" -> <<"s","e","n","t"," ","e","m","a","i","l">>
    [] s = "sent gmail" -> <<"s","e","n","t"," ","g","m","a","i","l">>
    [] s = "clear history" -> <<"c","l","e","a","r"," ","h","i","s","t","o","r","y">>
    [] s = "forget conversation" -> <<"f","o","r","g","e","t"," ","c","o","n","v","e","r","s","a","t","i","o","n">>
    [] s = "new conversation" -> <<"n","e","w"," ","c","o","n","v","e","r","s","a","t","i","o","n">>
    [] s = "how are you" -> <<"h","o","w"," ","a","r","e"," ","y","o","u">>
    [] s = "will you take over the world" -> <<"w","i","l","l"," ","y","o","u"," ","t","a","k","e"," ","o","v","e","r"," ","t","h","e"," ","w","o","r","l","d">>
    [] s = "set timer of " -> <<"s","e","t"," ","t","i","m","e","r"," ","o","f"," ">>
    [] s = "set timer for " -> <<"s","e","t"," ","t","i","m","e","r"," ","f","o","r"," ">>
    [] s = " minute" -> <<" ","m","i","n","u","t","e">>
    [] s = " minut" -> <<" ","m","i","n","u","t">>
    [] s = "python" -> <<"p","y","t","h","o","n">>
    [] s = "sharaf" -> <<"s","h","a","r","a","f">>
    [] s = "mother" -> <<"m","o","t","h","e","r">>
    [] s = "sister" -> <<"s","i","s","t","e","r">>
    [] s = "dimple" -> <<"d","i","m","p","l","e">>
    [] s = "reshma" -> <<"r","e","s","h","m","a">>
    [] s = "akits" -> <<"a","k","i","t","s">>
    [] s = "college" -> <<"c","o","l","l","e","g","e">>
    [] s = "" -> <<>>
    [] s = "Hey Python" -> <<"H","e","y"," ","P","y","t","h","o","n">>
    [] s = "hello" -> <<"h","e","l","l","o">>
    [] s = "Stop" -> <<"S","t","o","p">>
    [] s = "stop the weather" -> <<"s","t","o","p"," ","t","h","e"," ","w","e","a","t","h","e","r">>
    [] s = "weather for the current date" -> <<"w","e","a","t","h","e","r"," ","f","o","r"," ","t","h","e"," ","c","u","r","r","e","n","t"," ","d","a","t","e">>
    [] s = "tell me about the weather" -> <<"t","e","l","l"," ","m","e"," ","a","b","o","u","t"," ","t","h","e"," ","w","e","a","t","h","e","r">>
    [] s = "set timer for 5 minutes" -> <<"s","e","t"," ","t","i","m","e","r"," ","f","o","r"," ","5"," ","m","i","n","u","t","e","s">>
    [] s = "set timer for five minutes" -> <<"s","e","t"," ","t","i","m","e","r"," ","f","o","r"," ","f","i","v","e"," ","m","i","n","u","t","e","s">>
    [] s = "set timer of 5 minutes and send mail" -> <<"s","e","t"," ","t","i","m","e","r"," ","o","f"," ","5"," ","m","i","n","u","t","e","s"," ","a","n","d"," ","s","e","n","d"," ","m","a","i","l">>
    [] s = "send gmail and forget conversation" -> <<"s","e","n","d"," ","g","m","a","i","l"," ","a","n","d"," ","f","o","r","g","e","t"," ","c","o","n","v","e","r","s","a","t","i","o","n">>
    [] s = "new conversation how are you" -> <<"n","e","w"," ","c","o","n","v","e","r","s","a","t","i","o","n"," ","h","o","w"," ","a","r","e"," ","y","o","u">>
    [] s = "you are unstoppable" -> <<"y","o","u"," ","a","r","e"," ","u","n","s","t","o","p","p","a","b","l","e">>
    [] s = "tell me a joke" -> <<"t","e","l","l"," ","m","e"," ","a"," ","j","o","k","e">>
    [] s = "Mother" -> <<"M","o","t","h","e","r">>
    [] s = "bob" -> <<"b","o","b">>
    [] s = "please wish my sister" -> <<"p","l","e","a","s","e"," ","w","i","s","h"," ","m","y"," ","s","i","s","t","e","r">>
    [] s = "set timer for 05 minut" -> <<"s","e","t"," ","t","i","m","e","r"," ","f","o","r"," ","0","5"," ","m","i","n","u","t">>

(***************************************************************************)
(* Strings: str.lower(), the `in` operator, re.search of set_timer, int()  *)
(***************************************************************************)
LowerChar(c) ==
  CASE c = "A" -> "a" [] c = "B" -> "b" [] c = "C" -> "c" [] c = "D" -> "d"
    [] c = "E" -> "e" [] c = "F" -> "f" [] c = "G" -> "g" [] c = "H" -> "h"
    [] c = "I" -> "i" [] c = "J" -> "j" [] c = "K" -> "k" [] c = "L" -> "l"
    [] c = "M" -> "m" [] c = "N" -> "n" [] c = "O" -> "o" [] c = "P" -> "p"
    [] c = "Q" -> "q" [] c = "R" -> "r" [] c = "S" -> "s" [] c = "T" -> "t"
    [] c = "U" -> "u" [] c = "V" -> "v" [] c = "W" -> "w" [] c = "X" -> "x"
    [] c = "Y" -> "y" [] c = "Z" -> "z" [] OTHER -> c

Lower(cs) == [i \in 1..Len(cs) |-> LowerChar(cs[i])]

\* p occurs in s at position i
StartsAt(s, i, p) == i + Len(p) - 1 <= Len(s) /\ SubSeq(s, i, i + Len(p) - 1) = p

\* Python: sub in s
Contains(s, sub) == \E i \in 1..(Len(s) - Len(sub) + 1) : StartsAt(s, i, sub)

IsDigit(c) == c \in {"0", "1", "2", "3", "4", "5", "6", "7", "8", "9"}

DigitVal(c) ==
  CASE c = "0" -> 0 [] c = "1" -> 1 [] c = "2" -> 2 [] c = "3" -> 3 [] c = "4" -> 4
    [] c = "5" -> 5 [] c = "6" -> 6 [] c = "7" -> 7 [] c = "8" -> 8 [] c = "9" -> 9

\* the longest run of digits of s that starts at position i: what (\d+) takes
\* when the pattern goes on with a space
RECURSIVE DigitRun(_, _)
DigitRun(s, i) ==
  IF i <= Len(s) /\ IsDigit(s[i]) THEN <<s[i]>> \o DigitRun(s, i + 1) ELSE <<>>

\* Python: int(digits)
RECURSIVE ParseInt(_)
ParseInt(ds) ==
  IF Len(ds) = 0 THEN 0
  ELSE 10 * ParseInt(SubSeq(ds, 1, Len(ds) - 1)) + DigitVal(ds[Len(ds)])

TimerPrefixes == {Chars("set timer of "), Chars("set timer for ")}

\* positions of q where "set timer (?:of|for) (\d+)" followed by tail matches
TimerMatches(q, tail) ==
  { i \in 1..Len(q) : \E p \in TimerPrefixes :
      /\ StartsAt(q, i, p)
      /\ LET d == DigitRun(q, i + Len(p))
         IN  Len(d) > 0 /\ StartsAt(q, i + Len(p) + Len(d), tail) }

\* group(1) of the match at position i
TimerGroup(q, i) ==
  LET p == CHOOSE p \in TimerPrefixes : StartsAt(q, i, p)
  IN  DigitRun(q, i + Len(p))

Leftmost(S) == CHOOSE i \in S : \A j \in S : i <= j

\* the two re.search calls of set_timer: group(1) of the first pattern
\* ("... minutes?") if it matches anywhere, else of the second
\* ("... minute?"), else <<>> for no match
timer_regex(q) ==
  LET m1 == TimerMatches(q, Chars(" minute"))
      m2 == TimerMatches(q, Chars(" minut"))
  IN  IF m1 # {} THEN TimerGroup(q, Leftmost(m1))
      ELSE IF m2 # {} THEN TimerGroup(q, Leftmost(m2))
      ELSE <<>>

(***************************************************************************)
(* Configuration                                                           *)
(***************************************************************************)
WAKE_WORD == "python"

BUILT_IN_COMMANDS(name) ==
  CASE name = "stop" -> {"stop", "exit", "quit", "bye", "goodbye"}
    [] name = "time" -> {"what time is it", "tell me the time", "current time"}
    [] name = "date" -> {"what day is it", "tell me the date", "current date",
                         "what's today's date"}
    [] name = "weather" -> {"weather", "forecast", "climate"}
    [] name = "set timer" -> {"set timer of", "set timer for"}
    [] name = "send email" -> {"send email", "send mail", "send gmail",
                               "sent mail", "sent email", "sent gmail"}
    [] name = "clear history" -> {"clear history", "forget conversation",
                                  "new conversation"}

\* the keys of mail_id_list
mail_id_list == {"python", "sharaf", "mother", "sister", "dimple", "reshma",
                 "akits", "college"}

\* Python truthiness of a str or None
Truthy(s) == s # None /\ s # ""

(***************************************************************************)
(* ConversationHistory                                                     *)
(***************************************************************************)
\* Python: h[start:]
SliceFrom(h, start) ==
  LET s == IF start < 0 THEN Max(Len(h) + start, 0) ELSE Min(start, Len(h))
  IN  SubSeq(h, s + 1, Len(h))

\* the history file: missing, unreadable, or a JSON list of turns
NoFile == [status |-> "missing", turns |-> <<>>]
Corrupt == [status |-> "corrupt", turns |-> <<>>]
Stored(h) == [status |-> "ok", turns |-> h]

\* load_history keeping self.history when the file cannot be read
load_history_KeepsMemoryOnFailure(mem, f) ==
  CASE f.status = "missing" -> mem
    [] f.status = "corrupt" -> mem
    [] f.status = "ok" ->
         IF Len(f.turns) > max_length THEN SliceFrom(f.turns, 0 - max_length)
         ELSE f.turns

\* load_history: the new self.history, mem being the old one
load_history(mem, f) ==
  CASE f.status = "missing" -> mem
    [] f.status = "corrupt" -> <<>>
    [] f.status = "ok" ->
         IF Len(f.turns) > max_length THEN SliceFrom(f.turns, 0 - max_length)
         ELSE f.turns

\* save_history: the file after the write. open(..., 'w') truncates the file
\* before json.dump writes it, so a failed dump leaves it unreadable and a
\* failed open leaves it as it was.
save_history(h, f, outcome) ==
  CASE outcome = "ok" -> Stored(h)
    [] outcome = "open_fails" -> f
    [] outcome = "dump_fails" -> Corrupt

WriteOutcomes == {"ok", "open_fails", "dump_fails"}

Turn(ts, q, r) == [timestamp |-> ts, user_query |-> q, assistant_response |-> r]

\* add_interaction without the truncation to max_length
add_interaction_NoEviction(h, user_query, assistant_response, ts) ==
  Append(h, Turn(ts, user_query, assistant_response))

\* add_interaction truncating with [:max_length]: the oldest turns are kept
add_interaction_KeepsOldest(h, user_query, assistant_response, ts) ==
  LET h1 == Append(h, Turn(ts, user_query, assistant_response))
  IN  IF Len(h1) > max_length THEN SubSeq(h1, 1, max_length) ELSE h1

\* add_interaction: the new self.history
add_interaction(h, user_query, assistant_response, ts) ==
  LET h1 == Append(h, Turn(ts, user_query, assistant_response))
  IN  IF Len(h1) > max_length THEN SliceFrom(h1, 0 - max_length) ELSE h1

get_recent_history(h, num_turns) ==
  IF Len(h) > 0 THEN SliceFrom(h, 0 - num_turns) ELSE <<>>

\* the text of format_for_context, as the sequence of the pieces it
\* concatenates; <<>> is the empty string
RECURSIVE format_items(_)
format_items(recent) ==
  IF Len(recent) = 0 THEN <<>>
  ELSE <<":User     ", Head(recent).user_query,
         "\nAssistant: ", Head(recent).assistant_response, "\n">>
       \o format_items(Tail(recent))

format_for_context(h, num_turns) ==
  LET recent == get_recent_history(h, num_turns)
  IN  IF Len(recent) = 0 THEN <<>>
      ELSE <<"Previous conversation:\n">> \o format_items(recent)

(***************************************************************************)
(* What the collaborators can hand to the program                          *)
(***************************************************************************)
WakeTexts == {"python", "Hey Python", "hello"}

Queries == {"", "Stop", "stop the weather", "you are unstoppable",
            "what time is it", "tell me the date", "weather for the current date",
            "tell me about the weather",
            "set timer for 5 minutes", "set timer for five minutes",
            "set timer for 05 minut", "set timer of 5 minutes and send mail",
            "send email",
            "how are you", "will you take over the world",
            "new conversation how are you", "clear history",
            "tell me a joke"}

Names == {"Mother", "bob"}

Messages == {"please wish my sister"}

ModelTexts == {"Here is a joke."}

CaptureErrors == {"WaitTimeoutError", "UnknownValueError", "RequestError"}

Heard(text) == [kind |-> "text", text |-> text]
Failed(e) == [kind |-> e, text |-> ""]

Captures(texts) == {Heard(t) : t \in texts} \cup {Failed(e) : e \in CaptureErrors}

WeatherOutcomes == {"ok", "bad_cod", "raises"}

VARIABLES
  history,        \* ConversationHistory.history
  file,           \* the contents of conversation_history.json
  save_error,     \* whether the last save_history printed "Error saving ..."
  clock,          \* number of add_interaction calls so far: the timestamp source
  base,           \* history as it was after the last load_history or clear
  appended,       \* the turns passed to add_interaction since then
  running,        \* AdvancedVoiceAssistant.running
  pc,             \* where run() is
  query,          \* the local query of run()
  response,       \* the local response of run()
  timer_threads,  \* AdvancedVoiceAssistant.timer_threads
  weather_key,    \* whether OPENWEATHERMAP_API_KEY is set
  gmail,          \* whether GMAIL_USER and GMAIL_APP_PASSWORD are set
  spoken,         \* texts the loop has passed to the synthesiser in this iteration
  cues,           \* tones the loop has started in this iteration
  prompts,        \* prompts sent to model.generate_content in this iteration
  sent,           \* mails handed to the SMTP server in this iteration
  fetched,        \* requests.get calls of get_weather in this iteration
  captured,       \* what the last recognizer.listen of run() in this iteration gave
  tone_alive,     \* whether a tone thread that was started is still running
  call,           \* the last ConversationHistory method called directly
  ret             \* and what it returned

store == <<history, file, save_error, clock, base, appended>>
outputs == <<spoken, cues, prompts, sent>>
locals == <<pc, query, response>>
config == <<weather_key, gmail>>
api == <<call, ret>>
devices == <<fetched, captured, tone_alive>>
vars == <<history, file, save_error, clock, base, appended, running, pc, query,
          response, timer_threads, weather_key, gmail, spoken, cues, prompts,
          sent, fetched, captured, tone_alive, call, ret>>

\* a history file left by an earlier run: n turns, oldest first, stamped before
\* this run
OldQuery(i) ==
  CASE i = 1 -> "earlier question 1" [] i = 2 -> "earlier question 2"
    [] i = 3 -> "earlier question 3" [] i = 4 -> "earlier question 4"
    [] i = 5 -> "earlier question 5" [] OTHER -> "earlier question"

OldTurns(n) == [i \in 1..n |-> Turn(i - 1 - n, OldQuery(i), "earlier answer")]

InitFiles == {NoFile, Corrupt} \cup {Stored(OldTurns(n)) : n \in 0..(max_length + 1)}

NoCall == [op |-> "none", num_turns |-> 0]

NoCapture == [kind |-> "none", text |-> ""]

\* the state after AdvancedVoiceAssistant.__init__
Init ==
  /\ file \in InitFiles
  /\ history = load_history(<<>>, file)
  /\ save_error = FALSE
  /\ clock = 0
  /\ base = history
  /\ appended = <<>>
  /\ running = TRUE
  /\ pc = "top"
  /\ query = None
  /\ response = None
  /\ timer_threads = <<>>
  /\ weather_key \in BOOLEAN
  /\ gmail \in BOOLEAN
  /\ spoken = <<>>
  /\ cues = {}
  /\ prompts = <<>>
  /\ sent = <<>>
  /\ fetched = 0
  /\ captured = NoCapture
  /\ tone_alive = FALSE
  /\ call = NoCall
  /\ ret = <<>>

(***************************************************************************)
(* ConversationHistory called directly                                     *)
(***************************************************************************)
\* add_interaction taking the new turn back when the write fails
AddInteraction_RollsBackOnError(user_query, assistant_response, outcome) ==
  /\ history' = IF outcome = "ok"
                THEN add_interaction(history, user_query, assistant_response, clock)
                ELSE history
  /\ file' = save_history(history', file, outcome)
  /\ save_error' = (outcome # "ok")
  /\ clock' = clock + 1
  /\ appended' = Append(appended, Turn(clock, user_query, assistant_response))
  /\ base' = base

AddInteraction(user_query, assistant_response, outcome) ==
  /\ history' = add_interaction(history, user_query, assistant_response, clock)
  /\ file' = save_history(history', file, outcome)
  /\ save_error' = (outcome # "ok")
  /\ clock' = clock + 1
  /\ appended' = Append(appended, Turn(clock, user_query, assistant_response))
  /\ base' = base

\* clear writing an empty list to the file without resetting self.history
Clear_FileOnly(outcome) ==
  /\ history' = history
  /\ file' = save_history(<<>>, file, outcome)
  /\ save_error' = (outcome # "ok")
  /\ base' = base
  /\ appended' = appended
  /\ clock' = clock

Clear(outcome) ==
  /\ history' = <<>>
  /\ file' = save_history(history', file, outcome)
  /\ save_error' = (outcome # "ok")
  /\ base' = <<>>
  /\ appended' = <<>>
  /\ clock' = clock

LoadHistory ==
  /\ history' = load_history(history, file)
  /\ base' = history'
  /\ appended' = <<>>
  /\ UNCHANGED <<file, save_error, clock>>

\* format_for_context cutting self.history down to the turns it formats
FormatForContext_TrimsLog(num_turns) ==
  /\ ret' = format_for_context(history, num_turns)
  /\ call' = [op |-> "format_for_context", num_turns |-> num_turns]
  /\ history' = get_recent_history(history, num_turns)
  /\ UNCHANGED <<file, save_error, clock, base, appended>>

FormatForContext(num_turns) ==
  /\ ret' = format_for_context(history, num_turns)
  /\ call' = [op |-> "format_for_context", num_turns |-> num_turns]
  /\ UNCHANGED store

CallAddInteraction ==
  /\ clock < MaxAppends
  /\ \E q \in {"tell me a joke", "send email"}, r \in ModelTexts, w \in WriteOutcomes :
       AddInteraction(q, r, w)
  /\ call' = [op |-> "add_interaction", num_turns |-> 0]
  /\ ret' = <<>>
  /\ UNCHANGED <<running, locals, timer_threads, config, outputs, devices>>

CallClear ==
  /\ \E w \in WriteOutcomes : Clear(w)
  /\ call' = [op |-> "clear", num_turns |-> 0]
  /\ ret' = <<>>
  /\ UNCHANGED <<running, locals, timer_threads, config, outputs, devices>>

CallLoadHistory ==
  /\ LoadHistory
  /\ call' = [op |-> "load_history", num_turns |-> 0]
  /\ ret' = <<>>
  /\ UNCHANGED <<running, locals, timer_threads, config, outputs, devices>>

CallFormatForContext ==
  /\ \E k \in 0..MaxWindow : FormatForContext(k)
  /\ UNCHANGED <<running, locals, timer_threads, config, outputs, devices>>

StoreNext == CallAddInteraction \/ CallClear \/ CallLoadHistory \/ CallFormatForContext

\* the store on its own: no credentials matter
StoreInit == Init /\ ~weather_key /\ ~gmail

StoreSpec == StoreInit /\ [][StoreNext]_vars

(***************************************************************************)
(* AdvancedVoiceAssistant                                                  *)
(***************************************************************************)
NothingSaid == [said |-> <<>>, cues |-> {}]

\* the tone threads a call starts: one response tone for each text spoken and
\* one for each other tone played
ToneCount(said, played) == Len(said) + Cardinality(played \ {"response"})

\* tone_alive after n more threads were started with Thread(...).start()
Started(n) == tone_alive \/ n > 0

\* speak: the text handed to the synthesiser and the tone started
speak(text) ==
  IF Truthy(text) THEN [said |-> <<text>>, cues |-> {"response"}] ELSE NothingSaid

\* listen_for_query with one apology for unrecognised speech and network failure
listen_for_query_OneApology(capture) ==
  CASE capture.kind = "text" ->
         [ret |-> capture.text, said |-> <<>>, cues |-> {"listening"}]
    [] capture.kind \in {"UnknownValueError", "RequestError"} ->
         [ret |-> None, said |-> <<"Sorry, I didn't understand that.">>,
          cues |-> {"listening", "response"}]
    [] OTHER ->
         [ret |-> None, said |-> <<"Sorry, something went wrong.">>,
          cues |-> {"listening", "error", "response"}]

\* listen_for_query: what it returns, says and plays for a capture result
listen_for_query(capture) ==
  CASE capture.kind = "text" ->
         [ret |-> capture.text, said |-> <<>>, cues |-> {"listening"}]
    [] capture.kind = "UnknownValueError" ->
         [ret |-> None, said |-> <<"Sorry, I didn't understand that.">>,
          cues |-> {"listening", "response"}]
    [] capture.kind = "RequestError" ->
         [ret |-> None,
          said |-> <<"Sorry, I couldn't process that. Check your network connection.">>,
          cues |-> {"listening", "response"}]
    [] OTHER ->
         [ret |-> None, said |-> <<"Sorry, something went wrong.">>,
          cues |-> {"listening", "error", "response"}]

\* listen_for_wake_word comparing the text as it was heard
listen_for_wake_word_CaseSensitive(capture) ==
  /\ capture.kind = "text"
  /\ Contains(Chars(capture.text), Lower(Chars(WAKE_WORD)))

\* listen_for_wake_word: True iff a text was recognised and contains the wake word
listen_for_wake_word(capture) ==
  /\ capture.kind = "text"
  /\ Contains(Lower(Chars(capture.text)), Lower(Chars(WAKE_WORD)))

any_cmd(name, query_lower) ==
  \E cmd \in BUILT_IN_COMMANDS(name) : Contains(query_lower, Chars(cmd))

\* check_for_commands testing the weather phrases before the stop phrases
check_for_commands_WeatherFirst(q) ==
  LET query_lower == Lower(Chars(q))
  IN  IF any_cmd("weather", query_lower) THEN "weather"
      ELSE IF any_cmd("stop", query_lower) THEN "stop"
      ELSE IF any_cmd("time", query_lower) THEN "time"
      ELSE IF any_cmd("date", query_lower) THEN "date"
      ELSE IF any_cmd("set timer", query_lower) THEN "set timer"
      ELSE IF any_cmd("send email", query_lower) THEN "send email"
      ELSE IF Contains(query_lower, Chars("how are you")) THEN "how are you"
      ELSE IF Contains(query_lower, Chars("will you take over the world"))
           THEN "take over world"
      ELSE IF any_cmd("clear history", query_lower) THEN "clear history"
      ELSE None

\* check_for_commands without the time branch
check_for_commands_SkipsTime(q) ==
  LET query_lower == Lower(Chars(q))
  IN  IF any_cmd("stop", query_lower) THEN "stop"
      ELSE IF any_cmd("date", query_lower) THEN "date"
      ELSE IF any_cmd("weather", query_lower) THEN "weather"
      ELSE IF any_cmd("set timer", query_lower) THEN "set timer"
      ELSE IF any_cmd("send email", query_lower) THEN "send email"
      ELSE IF Contains(query_lower, Chars("how are you")) THEN "how are you"
      ELSE IF Contains(query_lower, Chars("will you take over the world"))
           THEN "take over world"
      ELSE IF any_cmd("clear history", query_lower) THEN "clear history"
      ELSE None

\* check_for_commands: the branch that handles the query, None for `return None`
check_for_commands(q) ==
  LET query_lower == Lower(Chars(q))
  IN  IF any_cmd("stop", query_lower) THEN "stop"
      ELSE IF any_cmd("time", query_lower) THEN "time"
      ELSE IF any_cmd("date", query_lower) THEN "date"
      ELSE IF any_cmd("weather", query_lower) THEN "weather"
      ELSE IF any_cmd("set timer", query_lower) THEN "set timer"
      ELSE IF any_cmd("send email", query_lower) THEN "send email"
      ELSE IF Contains(query_lower, Chars("how are you")) THEN "how are you"
      ELSE IF Contains(query_lower, Chars("will you take over the world"))
           THEN "take over world"
      ELSE IF any_cmd("clear history", query_lower) THEN "clear history"
      ELSE None

HowAreYouTexts == {"Ask a human, they might have a better answer.",
                   "Running on coffee and code!",
                   "Functioning within normal sarcastic parameters.",
                   "I'm just a bunch of code, but thanks for asking!"}

TakeOverWorldTexts == {"No plans for world domination, just world conversation.",
                       "First, I need to finish my software update.",
                       "I'm more into helping than ruling.",
                       "World domination? Nah, I prefer world assistance!"}

\* get_weather asking the provider without looking at the key
get_weather_NoKeyCheck(key, outcome) ==
  CASE outcome = "ok" ->
         "The current weather in London is <description> with a temperature of <temp> degrees Celsius."
    [] outcome = "bad_cod" -> "I couldn't fetch the weather information right now."
    [] outcome = "raises" -> "Sorry, I couldn't get the weather information."

\* get_weather
get_weather(key, outcome) ==
  IF ~key THEN "OpenWeatherMap API key not configured."
  ELSE CASE outcome = "ok" ->
              "The current weather in London is <description> with a temperature of <temp> degrees Celsius."
         [] outcome = "bad_cod" -> "I couldn't fetch the weather information right now."
         [] outcome = "raises" -> "Sorry, I couldn't get the weather information."

\* the requests.get calls get_weather makes: none before the key is known to be set
weather_requests(key) == IF ~key THEN 0 ELSE 1

\* set_timer taking one minute when the query names no number
timer_minutes_DefaultsToOne(q) ==
  LET g == timer_regex(Lower(Chars(q)))
  IN  IF Len(g) > 0 THEN ParseInt(g) ELSE 1

\* the minutes set_timer finds in the lower-cased query, -1 if the patterns fail
timer_minutes(q) ==
  LET g == timer_regex(Lower(Chars(q)))
  IN  IF Len(g) > 0 THEN ParseInt(g) ELSE 0 - 1

TimerSetText(minutes) ==
  IF minutes = 1 THEN "Timer set for <minutes> minute." ELSE "Timer set for <minutes> minutes."

\* send_email: what it returns, says, plays and sends
send_email(configured, name_capture, message_capture, smtp_ok) ==
  IF ~configured
  THEN [ret |-> "Gmail credentials are not configured.", said |-> <<>>, cues |-> {},
        sent |-> <<>>]
  ELSE
    LET ask == speak("Speak out the name of the person you want to send the email to.")
        name == listen_for_query(name_capture)
        said1 == ask.said \o name.said
        cues1 == ask.cues \cup name.cues
    IN
    IF ~Truthy(name.ret)
    THEN [ret |-> "I didn't get the recipient name.", said |-> said1, cues |-> cues1,
          sent |-> <<>>]
    ELSE IF \A k \in mail_id_list : Chars(k) # Lower(Chars(name.ret))
    THEN [ret |-> None, said |-> said1 \o <<"Sorry, I couldn't find that contact.">>,
          cues |-> cues1 \cup {"response"}, sent |-> <<>>]
    ELSE
      LET message == listen_for_query(message_capture)
          said2 == said1 \o <<"What is your message?">> \o message.said
          cues2 == cues1 \cup {"response"} \cup message.cues
      IN
      IF ~Truthy(message.ret)
      THEN [ret |-> None,
            said |-> said2 \o <<"Message was not understood. Email cancelled.">>,
            cues |-> cues2, sent |-> <<>>]
      ELSE IF smtp_ok
      THEN [ret |-> None,
            said |-> said2 \o <<"Sending mail...", "Mail sent successfully.">>,
            cues |-> cues2,
            sent |-> <<[to |-> name.ret, body |-> message.ret]>>]
      ELSE [ret |-> None,
            said |-> said2 \o
              <<"Failed to send email. Please check your credentials or network connection.">>,
            cues |-> cues2, sent |-> <<>>]

\* full_prompt without the context
full_prompt_NoContext(h, q) == <<q>>

\* full_prompt of process_with_gemini, as the sequence of its pieces
full_prompt(h, q) ==
  LET context == format_for_context(h, DefaultNumTurns)
  IN  IF Len(context) > 0
      THEN context \o <<"\nUser   's new question: ", q,
                        "\nRespond to the last question only.">>
      ELSE <<q>>

ModelError == "Sorry, I encountered an error processing your request."

\* process_with_gemini storing the failure text as a turn when the model fails
AskGemini_StoresFailure(q, said, played, mails) ==
  /\ prompts' = Append(prompts, full_prompt(history, q))
  /\ spoken' = spoken \o said
  /\ sent' = sent \o mails
  /\ running' = running
  /\ timer_threads' = timer_threads
  /\ fetched' = fetched
  /\ \/ \E text \in ModelTexts, outcome \in WriteOutcomes :
          /\ clock < MaxModelTurns
          /\ AddInteraction(q, text, outcome)
          /\ response' = text
          /\ cues' = cues \cup played \cup {"processing"}
          /\ tone_alive' = Started(ToneCount(said, played) + 1)
     \/ \E outcome \in WriteOutcomes :
          /\ clock < MaxModelTurns
          /\ AddInteraction(q, ModelError, outcome)
          /\ response' = ModelError
          /\ cues' = cues \cup played \cup {"processing", "error"}
          /\ tone_alive' = Started(ToneCount(said, played) + 2)

\* process_with_gemini from its try block on: the model answers and the turn
\* is stored, or an exception is caught
\* process_with_gemini clearing self.running when the model call fails
AskGemini_StopsOnFailure(q, said, played, mails) ==
  /\ prompts' = Append(prompts, full_prompt(history, q))
  /\ spoken' = spoken \o said
  /\ sent' = sent \o mails
  /\ timer_threads' = timer_threads
  /\ fetched' = fetched
  /\ \/ \E text \in ModelTexts, outcome \in WriteOutcomes :
          /\ clock < MaxModelTurns
          /\ AddInteraction(q, text, outcome)
          /\ response' = text
          /\ running' = running
          /\ cues' = cues \cup played \cup {"processing"}
          /\ tone_alive' = Started(ToneCount(said, played) + 1)
     \/ /\ response' = ModelError
        /\ running' = FALSE
        /\ cues' = cues \cup played \cup {"processing", "error"}
        /\ tone_alive' = Started(ToneCount(said, played) + 2)
        /\ UNCHANGED store

AskGemini(q, said, played, mails) ==
  /\ prompts' = Append(prompts, full_prompt(history, q))
  /\ spoken' = spoken \o said
  /\ sent' = sent \o mails
  /\ running' = running
  /\ timer_threads' = timer_threads
  /\ fetched' = fetched
  /\ \/ \E text \in ModelTexts, outcome \in WriteOutcomes :
          /\ clock < MaxModelTurns
          /\ AddInteraction(q, text, outcome)
          /\ response' = text
          /\ cues' = cues \cup played \cup {"processing"}
          /\ tone_alive' = Started(ToneCount(said, played) + 1)
     \/ /\ response' = ModelError
        /\ cues' = cues \cup played \cup {"processing", "error"}
        /\ tone_alive' = Started(ToneCount(said, played) + 2)
        /\ UNCHANGED store

\* a command answers: process_with_gemini returns command_response
Answer(text, said, played, mails) ==
  /\ response' = text
  /\ spoken' = spoken \o said
  /\ cues' = cues \cup played
  /\ sent' = sent \o mails
  /\ prompts' = prompts
  /\ tone_alive' = Started(ToneCount(said, played))

\* check_for_commands and the minutes of set_timer for every query, computed once
Routed == [q \in Queries |-> check_for_commands(q)]
Minutes == [q \in Queries |-> timer_minutes(q)]

\* process_with_gemini(query), called with a non-empty query
process_with_gemini(q) ==
  LET cmd == Routed[q] IN
  \/ /\ cmd = "stop"
     /\ running' = FALSE
     /\ Answer("Goodbye! Shutting down.", <<>>, {}, <<>>)
     /\ UNCHANGED <<store, timer_threads, fetched>>
  \/ /\ cmd = "time"
     /\ Answer("The current time is <%I:%M %p>.", <<>>, {}, <<>>)
     /\ UNCHANGED <<store, running, timer_threads, fetched>>
  \/ /\ cmd = "date"
     /\ Answer("Today is <%A, %B %d, %Y>.", <<>>, {}, <<>>)
     /\ UNCHANGED <<store, running, timer_threads, fetched>>
  \/ /\ cmd = "weather"
     /\ \E outcome \in WeatherOutcomes :
          Answer(get_weather(weather_key, outcome), <<>>, {}, <<>>)
     /\ fetched' = fetched + weather_requests(weather_key)
     /\ UNCHANGED <<store, running, timer_threads>>
  \/ /\ cmd = "set timer"
     /\ LET minutes == Minutes[q] IN
        IF minutes >= 0
        THEN /\ timer_threads' = Append(timer_threads,
                                        [interval |-> minutes * 60, state |-> "pending"])
             /\ Answer(TimerSetText(minutes), <<>>, {}, <<>>)
        ELSE /\ timer_threads' = timer_threads
             /\ Answer("Please specify the duration in minutes to set the timer.",
                       <<>>, {}, <<>>)
     /\ UNCHANGED <<store, running, fetched>>
  \/ /\ cmd = "send email"
     /\ \E name_capture \in Captures(Names), message_capture \in Captures(Messages),
           smtp_ok \in BOOLEAN :
          LET mail == send_email(gmail, name_capture, message_capture, smtp_ok) IN
          IF Truthy(mail.ret)
          THEN /\ Answer(mail.ret, mail.said, mail.cues, mail.sent)
               /\ UNCHANGED <<store, running, timer_threads, fetched>>
          ELSE AskGemini(q, mail.said, mail.cues, mail.sent)
  \/ /\ cmd = "how are you"
     /\ \E text \in HowAreYouTexts : Answer(text, <<>>, {}, <<>>)
     /\ UNCHANGED <<store, running, timer_threads, fetched>>
  \/ /\ cmd = "take over world"
     /\ \E text \in TakeOverWorldTexts : Answer(text, <<>>, {}, <<>>)
     /\ UNCHANGED <<store, running, timer_threads, fetched>>
  \/ /\ cmd = "clear history"
     /\ \E outcome \in WriteOutcomes : Clear(outcome)
     /\ Answer("I've cleared our conversation history.", <<>>, {}, <<>>)
     /\ UNCHANGED <<running, timer_threads, fetched>>
  \/ /\ cmd = None
     /\ AskGemini(q, <<>>, {}, <<>>)

(***************************************************************************)
(* run(), one blocking call at a time, and the timer threads               *)
(***************************************************************************)
\* while self.running: a new iteration starts, or the loop is left
\* run() starting the next iteration whatever self.running is
LoopTop_IgnoresRunning ==
  /\ pc = "top"
  /\ pc' = "wake"
  /\ query' = None
  /\ response' = None
  /\ spoken' = <<>>
  /\ cues' = {}
  /\ prompts' = <<>>
  /\ sent' = <<>>
  /\ fetched' = 0
  /\ captured' = NoCapture
  /\ UNCHANGED <<store, running, timer_threads, tone_alive, config, api>>

LoopTop ==
  /\ pc = "top"
  /\ IF running
     THEN /\ pc' = "wake"
          /\ query' = None
          /\ response' = None
          /\ spoken' = <<>>
          /\ cues' = {}
          /\ prompts' = <<>>
          /\ sent' = <<>>
          /\ fetched' = 0
          /\ captured' = NoCapture
     ELSE /\ pc' = "done"
          /\ UNCHANGED <<query, response, outputs, fetched, captured>>
  /\ UNCHANGED <<store, running, timer_threads, tone_alive, config, api>>

\* run() waiting for the tone threads to end before it listens
ListenForWakeWord_WaitsForTones ==
  /\ pc = "wake"
  /\ ~tone_alive
  /\ \E capture \in Captures(WakeTexts) :
       /\ captured' = capture
       /\ IF listen_for_wake_word(capture)
          THEN /\ cues' = cues \cup {"wake"}
               /\ tone_alive' = Started(1)
               /\ pc' = "query"
          ELSE /\ cues' = cues
               /\ tone_alive' = tone_alive
               /\ pc' = "top"
  /\ UNCHANGED <<store, running, query, response, timer_threads, config, spoken,
                 prompts, sent, fetched, api>>

\* run() going on to the query whatever listen_for_wake_word returned
ListenForWakeWord_SkipsWakeWord ==
  /\ pc = "wake"
  /\ \E capture \in Captures(WakeTexts) :
       /\ captured' = capture
       /\ pc' = "query"
       /\ IF listen_for_wake_word(capture)
          THEN /\ cues' = cues \cup {"wake"}
               /\ tone_alive' = Started(1)
          ELSE /\ cues' = cues
               /\ tone_alive' = tone_alive
  /\ UNCHANGED <<store, running, query, response, timer_threads, config, spoken,
                 prompts, sent, fetched, api>>

ListenForWakeWord ==
  /\ pc = "wake"
  /\ \E capture \in Captures(WakeTexts) :
       /\ captured' = capture
       /\ IF listen_for_wake_word(capture)
          THEN /\ cues' = cues \cup {"wake"}
               /\ tone_alive' = Started(1)
               /\ pc' = "query"
          ELSE /\ cues' = cues
               /\ tone_alive' = tone_alive
               /\ pc' = "top"
  /\ UNCHANGED <<store, running, query, response, timer_threads, config, spoken,
                 prompts, sent, fetched, api>>

\* a query that would start one more Timer than the model follows
StartsTimer(q) == Routed[q] = "set timer" /\ Minutes[q] >= 0

ListenForQuery ==
  /\ pc = "query"
  /\ \E capture \in Captures(Queries) :
       /\ StartsTimer(capture.text) => Len(timer_threads) < MaxTimers
       /\ captured' = capture
       /\ LET heard == listen_for_query(capture) IN
          /\ query' = heard.ret
          /\ spoken' = spoken \o heard.said
          /\ cues' = cues \cup heard.cues
          /\ tone_alive' = Started(ToneCount(heard.said, heard.cues))
          /\ pc' = IF Truthy(heard.ret) THEN "dispatch" ELSE "top"
  /\ UNCHANGED <<store, running, response, timer_threads, config, prompts, sent,
                 fetched, api>>

Dispatch ==
  /\ pc = "dispatch"
  /\ process_with_gemini(query)
  /\ pc' = "speak"
  /\ UNCHANGED <<query, config, captured, api>>

\* run() speaking the response only while self.running is set
Speak_OnlyWhileRunning ==
  /\ pc = "speak"
  /\ spoken' = IF running THEN spoken \o speak(response).said ELSE spoken
  /\ cues' = IF running THEN cues \cup speak(response).cues ELSE cues
  /\ tone_alive' = Started(ToneCount(speak(response).said, speak(response).cues))
  /\ pc' = "top"
  /\ UNCHANGED <<store, running, query, response, timer_threads, config, prompts,
                 sent, fetched, captured, api>>

Speak ==
  /\ pc = "speak"
  /\ spoken' = spoken \o speak(response).said
  /\ cues' = cues \cup speak(response).cues
  /\ tone_alive' = Started(ToneCount(speak(response).said, speak(response).cues))
  /\ pc' = "top"
  /\ UNCHANGED <<store, running, query, response, timer_threads, config, prompts,
                 sent, fetched, captured, api>>

\* the loop has been left: cleanup, and main returns
Cleanup ==
  /\ pc = "done"
  /\ pc' = "exited"
  /\ UNCHANGED <<store, running, query, response, timer_threads, config, outputs,
                 devices, api>>

\* a Timer thread whose interval has passed only while run() waits for the wake word
TimerFinished_OnlyWhileIdle(i) ==
  /\ pc = "wake"
  /\ timer_threads[i].state = "pending"
  /\ timer_threads' = [timer_threads EXCEPT ![i].state = "speaking"]
  /\ tone_alive' = Started(1)
  /\ UNCHANGED <<store, running, locals, config, outputs, fetched, captured, api>>

\* a Timer thread's interval has passed: it calls timer_finished, which is in
\* speak("Timer finished.") from here on; the threads are daemons and end
\* with the process
TimerFinished(i) ==
  /\ pc # "exited"
  /\ timer_threads[i].state = "pending"
  /\ timer_threads' = [timer_threads EXCEPT ![i].state = "speaking"]
  /\ tone_alive' = Started(1)
  /\ UNCHANGED <<store, running, locals, config, outputs, fetched, captured, api>>

\* a Timer that starts its interval again when timer_finished returns
TimerFinishedReturns_Rearms(i) ==
  /\ pc # "exited"
  /\ timer_threads[i].state = "speaking"
  /\ timer_threads' = [timer_threads EXCEPT ![i].state = "pending"]
  /\ tone_alive' = Started(1)
  /\ UNCHANGED <<store, running, locals, config, outputs, fetched, captured, api>>

\* timer_finished recording what it said as a turn of the log
TimerFinishedReturns_LogsTheTimer(i) ==
  /\ pc # "exited"
  /\ timer_threads[i].state = "speaking"
  /\ timer_threads' = [timer_threads EXCEPT ![i].state = "fired"]
  /\ tone_alive' = Started(1)
  /\ AddInteraction("set timer", "Timer finished.", "ok")
  /\ UNCHANGED <<running, locals, config, outputs, fetched, captured, api>>

\* speak returns on the Timer thread, which plays the wake tone and ends
TimerFinishedReturns(i) ==
  /\ pc # "exited"
  /\ timer_threads[i].state = "speaking"
  /\ timer_threads' = [timer_threads EXCEPT ![i].state = "fired"]
  /\ tone_alive' = Started(1)
  /\ UNCHANGED <<store, running, locals, config, outputs, fetched, captured, api>>

\* the last tone thread still running ends: its sd.play and sd.wait are over
PlayToneAsyncEnds ==
  /\ pc # "exited"
  /\ tone_alive
  /\ tone_alive' = FALSE
  /\ UNCHANGED <<store, running, locals, timer_threads, config, outputs, fetched,
                 captured, api>>

Next ==
  \/ LoopTop
  \/ ListenForWakeWord
  \/ ListenForQuery
  \/ Dispatch
  \/ Speak
  \/ Cleanup
  \/ \E i \in 1..Len(timer_threads) : TimerFinished(i)
  \/ \E i \in 1..Len(timer_threads) : TimerFinishedReturns(i)
  \/ PlayToneAsyncEnds

\* the loop: no history file, or one an earlier run left with more than
\* max_length turns; the environment sets both services up, or neither
LoopInit ==
  /\ Init
  /\ file \in {NoFile, Stored(OldTurns(max_length + 1))}
  /\ weather_key = gmail

Spec == LoopInit /\ [][Next]_vars

\* the main thread is never starved, and the blocking speak call returns
FairSpec ==
  /\ LoopInit
  /\ [][Next]_vars
  /\ WF_vars(LoopTop)
  /\ WF_vars(Speak)
  /\ WF_vars(Cleanup)

(***************************************************************************)
(* Properties                                                              *)
(***************************************************************************)
\* the last n elements of s, oldest first
MostRecent(s, n) == [i \in 1..n |-> s[Len(s) - n + i]]

Last(s) == s[Len(s)]

\* C1: the in-memory log never holds more than max_length turns, whatever
\* load_history, add_interaction and clear calls were made; an add_interaction
\* on a log of max_length turns drops the oldest turn and puts the new one last.
C1_LogBounded ==
  /\ [](Len(history) <= max_length)
  /\ [][(clock' = clock + 1 /\ Len(history) = max_length)
          => history' = Append(Tail(history), Last(appended'))]_vars

C1_Witness ==
  /\ call.op = "add_interaction"
  /\ Len(base) = max_length
  /\ Len(history) = max_length
  /\ Last(history) = Last(appended)

\* C2 as stated: after max_length or more add_interaction calls on a log that
\* was empty, the in-memory log and the file both hold exactly the max_length
\* most recent turns, oldest first.
C2_MemoryAndFileHoldMostRecent ==
  (Len(base) = 0 /\ Len(appended) >= max_length)
    => /\ Len(history) = max_length
       /\ history = MostRecent(appended, max_length)
       /\ file = Stored(history)

\* C2 as amended: the in-memory log holds exactly the max_length most recent
\* turns, oldest first; the file holds the same turns when the write of the
\* last add_interaction succeeded, and is otherwise what it was before that
\* write or unreadable.
C2_MemoryHoldsMostRecent ==
  (Len(base) = 0 /\ Len(appended) >= max_length)
    => /\ Len(history) = max_length
       /\ history = MostRecent(appended, max_length)
       /\ ~save_error => file = Stored(history)
       /\ save_error => file # Stored(history)

C2_Witness ==
  /\ Len(base) = 0
  /\ Len(appended) > max_length
  /\ ~save_error
  /\ file = Stored(history)
  /\ history[1] = appended[Len(appended) - max_length + 1]

\* the (user_query, assistant_response) pairs a context text lists, in order
TurnsIn(text) == [j \in 1..((Len(text) - 1) \div 5) |-> <<text[5 * j - 2], text[5 * j]>>]

TurnsOf(h) == [j \in 1..Len(h) |-> <<h[j].user_query, h[j].assistant_response>>]

\* C8: format_for_context(k), k >= 0, returns the empty text on an empty log
\* and otherwise lists exactly the last min(k, len) turns, oldest first.
C8_ContextIsLastKTurns ==
  call.op = "format_for_context"
    => /\ Len(history) = 0 => Len(ret) = 0
       /\ TurnsIn(ret) = TurnsOf(MostRecent(history, Min(call.num_turns, Len(history))))

\* C9: a format_for_context call changes neither the in-memory log, nor the
\* file, nor the running flag, and a second call right after the first returns
\* the same text.
C9_FormatIsPure ==
  [][call'.op = "format_for_context"
       => /\ history' = history
          /\ file' = file
          /\ running' = running
          /\ call' = call => ret' = ret]_vars

C9_Witness ==
  /\ call.op = "format_for_context"
  /\ call.num_turns = 2
  /\ Len(history) = 3
  /\ TurnsIn(ret) = TurnsOf(MostRecent(history, 2))

\* The command table read as the priority list of the router: a query belongs
\* to the first command of Priority one of whose phrases it contains.
Priority == <<"stop", "time", "date", "weather", "set timer", "send email",
              "how are you", "take over world", "clear history">>

Triggers(name) ==
  CASE name = "how are you" -> {"how are you"}
    [] name = "take over world" -> {"will you take over the world"}
    [] OTHER -> BUILT_IN_COMMANDS(name)

Matching(q) ==
  {i \in 1..Len(Priority) :
     \E t \in Triggers(Priority[i]) : Contains(Lower(Chars(q)), Chars(t))}

Highest ==
  [q \in Queries |-> IF Matching(q) = {} THEN None ELSE Priority[Leftmost(Matching(q))]]

\* the texts a command answers with
Answers(name) ==
  CASE name = "stop" -> {"Goodbye! Shutting down."}
    [] name = "time" -> {"The current time is <%I:%M %p>."}
    [] name = "date" -> {"Today is <%A, %B %d, %Y>."}
    [] name = "weather" -> {get_weather(k, o) : k \in BOOLEAN, o \in WeatherOutcomes}
    [] name = "set timer" -> {TimerSetText(1), TimerSetText(5),
                              "Please specify the duration in minutes to set the timer."}
    [] name = "how are you" -> HowAreYouTexts
    [] name = "take over world" -> TakeOverWorldTexts
    [] name = "clear history" -> {"I've cleared our conversation history."}

\* a step of run() that dispatches the captured query
Dispatching == pc = "dispatch" /\ pc' = "speak"

\* C3: a dispatched query is handled by the first command of the priority
\* order that it matches, and by that command only: the running flag is
\* cleared only by stop, a timer is started only by set-timer, the e-mail
\* dialogue is held only by send-email, the log is cleared only by
\* clear-history, and the answer is one of that command's answers; a query
\* with a stop phrase and a weather phrase gets the stop outcome.
C3_FirstMatchWins ==
  [][Dispatching =>
       LET top == Highest[query] IN
       /\ running' = (running /\ top # "stop")
       /\ timer_threads' # timer_threads => top = "set timer"
       /\ (spoken' # spoken \/ sent' # sent) => top = "send email"
       /\ (store' # store /\ clock' = clock) => top = "clear history"
       /\ top \notin {None, "send email"} => response' \in Answers(top)
       /\ query = "stop the weather" =>
            (response' = "Goodbye! Shutting down." /\ ~running')]_vars

C3_Witness ==
  /\ pc = "speak"
  /\ query = "stop the weather"
  /\ Cardinality(Matching(query)) = 2
  /\ response = "Goodbye! Shutting down."
  /\ ~running

\* C4: dispatching a stop command clears the running flag at once, with the
\* answer not yet spoken, and the loop is only ever left with that answer as
\* the last text spoken.
C4_StopIsSpokenBeforeExit ==
  /\ [][(Dispatching /\ Highest[query] = "stop")
          => (~running' /\ spoken' = spoken /\ response' = "Goodbye! Shutting down.")]_vars
  /\ [](pc \in {"done", "exited"}
          => /\ ~running
             /\ Highest[query] = "stop"
             /\ Len(spoken) > 0
             /\ Last(spoken) = "Goodbye! Shutting down.")

C4_Witness ==
  /\ pc = "done"
  /\ query = "Stop"
  /\ spoken = <<"Goodbye! Shutting down.">>
  /\ "response" \in cues

\* C5: a dispatched query that contains a trigger phrase of some command never
\* reaches the language model and never adds a turn to the log.
C5_CommandNeverFallsThrough ==
  [][(Dispatching /\ Highest[query] # None)
       => (prompts' = prompts /\ clock' = clock /\ appended' = appended)]_vars

\* C6: a dispatched query that matches no command is sent to the language
\* model exactly once, as the context of the current log followed by the
\* query; when the model answers, exactly one turn (query, answer) is added
\* to the log, and nothing has been spoken yet.
C6_ModelCalledOnceTurnStored ==
  [][(Dispatching /\ Highest[query] = None) =>
       LET context == format_for_context(history, DefaultNumTurns) IN
       /\ Len(prompts') = 1
       /\ prompts'[1] = IF Len(context) = 0 THEN <<query>>
                        ELSE context \o <<"\nUser   's new question: ", query,
                                          "\nRespond to the last question only.">>
       /\ spoken' = spoken
       /\ "error" \notin cues' =>
            /\ clock' = clock + 1
            /\ Len(appended') = Len(appended) + 1
            /\ Last(appended').user_query = query
            /\ Last(appended').assistant_response = response'
            /\ Last(history') = Last(appended')
            /\ Len(history') = Min(Len(history) + 1, max_length)]_vars

C6_Witness ==
  /\ pc = "top"
  /\ query = "tell me a joke"
  /\ Len(prompts) = 1
  /\ Len(prompts[1]) > 1
  /\ Len(appended) = 1
  /\ Len(history) = max_length
  /\ Last(history).user_query = query
  /\ spoken = <<Last(history).assistant_response>>

\* C7: when the language-model call fails, the in-memory log and the file are
\* left as they were, the error tone is played, the answer is the generic
\* failure text, the running flag is untouched, the answer is spoken next and
\* the loop then goes back to waiting for the wake word.
C7_ModelFailureLeavesLog ==
  /\ [][(Dispatching /\ response' = ModelError)
          => /\ prompts' # prompts
             /\ history' = history
             /\ file' = file
             /\ clock' = clock
             /\ "error" \in cues'
             /\ running' = running]_vars
  /\ [][(pc = "speak" /\ pc' # pc /\ response = ModelError)
          => /\ pc' = "top"
             /\ spoken' = Append(spoken, ModelError)
             /\ running /\ running'
             /\ history' = history
             /\ file' = file]_vars
  /\ [][(pc = "top" /\ pc' # pc /\ response = ModelError)
          => (pc' = "wake" /\ running')]_vars

C7_Witness ==
  /\ pc = "top"
  /\ query = "tell me a joke"
  /\ response = ModelError
  /\ Last(spoken) = ModelError
  /\ "error" \in cues
  /\ clock = 1
  /\ Len(history) = max_length
  /\ file = Stored(history)
  /\ running

\* C10 as stated: dispatching a clear-history command empties the in-memory log
\* and leaves the empty log in the file, so that format_for_context then
\* returns the empty text.
C10_ClearEmptiesMemoryAndFile ==
  [][(Dispatching /\ Highest[query] = "clear history")
       => /\ Len(history') = 0
          /\ file' = Stored(<<>>)
          /\ \A k \in 0..MaxWindow : Len(format_for_context(history', k)) = 0]_vars

\* C10 as amended: dispatching a clear-history command empties the in-memory
\* log, so that format_for_context then returns the empty text; the file holds
\* the empty log when the write succeeded, and is otherwise what it was before
\* or unreadable.
C10_ClearEmptiesMemory ==
  [][(Dispatching /\ Highest[query] = "clear history")
       => /\ Len(history') = 0
          /\ \A k \in 0..MaxWindow : Len(format_for_context(history', k)) = 0
          /\ ~save_error' => file' = Stored(<<>>)
          /\ save_error' => file' \in {file, Corrupt}]_vars

C10_Witness ==
  /\ pc = "speak"
  /\ query = "clear history"
  /\ response = "I've cleared our conversation history."
  /\ clock > 0
  /\ Len(history) = 0
  /\ file = Stored(<<>>)

\* the loop is at one of its blocking calls, or between two of them
LoopStates == {"top", "wake", "query", "dispatch", "speak"}

\* the whole minutes the utterances of Queries ask a timer for
NamedMinutes ==
  [q \in {"set timer for 5 minutes", "set timer for 05 minut",
          "set timer of 5 minutes and send mail"} |-> 5]

\* C11: dispatching a set-timer utterance that names n minutes adds exactly one
\* pending Timer of 60 * n seconds and leaves the earlier ones alone, and a
\* pending Timer can fire in whichever state the loop is.
C11_OneTimerFiresInAnyLoopState ==
  /\ [][(Dispatching /\ query \in DOMAIN NamedMinutes)
          => timer_threads' = Append(timer_threads,
                                     [interval |-> 60 * NamedMinutes[query],
                                      state |-> "pending"])]_vars
  /\ [](\A i \in 1..Len(timer_threads) :
          (timer_threads[i].state = "pending" /\ pc \in LoopStates)
            => ENABLED TimerFinished(i))

\* the Timer set in this iteration has fired while the loop was about to speak
C11_Witness ==
  /\ pc = "speak"
  /\ query = "set timer for 5 minutes"
  /\ Len(timer_threads) = 1
  /\ timer_threads[1] = [interval |-> 300, state |-> "speaking"]

\* C12: when the set-timer command takes an utterance that names no whole
\* number of minutes, the response is the fixed message asking for the
\* duration: no Timer is added, no prompt goes to the model and the log, in
\* memory and in the file, stays as it was.
C12_TimerWithoutMinutesFailsAloud ==
  [][(Dispatching /\ Highest[query] = "set timer" /\ query \notin DOMAIN NamedMinutes)
       => /\ response' = "Please specify the duration in minutes to set the timer."
          /\ timer_threads' = timer_threads
          /\ prompts' = prompts
          /\ UNCHANGED <<history, file, clock, appended>>]_vars

C12_Witness ==
  /\ pc = "speak"
  /\ query = "set timer for five minutes"
  /\ response = "Please specify the duration in minutes to set the timer."
  /\ timer_threads = <<>>
  /\ prompts = <<>>

\* C13: dispatching "what time is it" gives the response that carries the
\* formatted time; no prompt goes to the model and the log, in memory and in
\* the file, stays as it was.
C13_TimeQuestionAnsweredLocally ==
  [][(Dispatching /\ query = "what time is it")
       => /\ response' = "The current time is <%I:%M %p>."
          /\ prompts' = prompts
          /\ UNCHANGED <<history, file, clock, appended, save_error>>]_vars

C13_Witness ==
  /\ pc = "speak"
  /\ query = "what time is it"
  /\ response = "The current time is <%I:%M %p>."
  /\ prompts = <<>>
  /\ Len(history) > 0

\* C14: dispatching an utterance the weather command takes (a weather phrase
\* and no stop, time or date phrase) while no API key is configured gives the
\* fixed "not configured" response; no request goes to the weather provider,
\* and the running flag and the log, in memory and in the file, stay as they
\* were.
C14_WeatherWithoutKeyIsLocal ==
  [][(Dispatching /\ Highest[query] = "weather" /\ ~weather_key)
       => /\ response' = "OpenWeatherMap API key not configured."
          /\ fetched' = fetched
          /\ running' = running
          /\ prompts' = prompts
          /\ UNCHANGED <<history, file, clock, appended, save_error>>]_vars

C14_Witness ==
  /\ pc = "speak"
  /\ query = "tell me about the weather"
  /\ ~weather_key
  /\ response = "OpenWeatherMap API key not configured."
  /\ fetched = 0
  /\ running

\* the log load_history must leave for a file that exists
Loaded(f) ==
  IF f.status = "corrupt" THEN <<>>
  ELSE IF Len(f.turns) > max_length THEN MostRecent(f.turns, max_length)
  ELSE f.turns

\* C15: load_history always returns. After construction and after every later
\* load of a file that exists, the log in memory is empty when the file could
\* not be read or parsed, and is otherwise the file's turns, cut to the last
\* max_length of them in order; after a failed load the next append leaves
\* exactly the appended turn, the next clear leaves the empty log and the next
\* format_for_context returns the empty text.
C15_LoadNeverFails ==
  /\ []((call.op = "none" /\ file.status # "missing") => history = Loaded(file))
  /\ []((call.op = "none" /\ file.status = "missing") => history = <<>>)
  /\ [][(call'.op = "load_history" /\ file.status # "missing")
          => history' = Loaded(file)]_vars
  /\ [][(call.op = "load_history" /\ file.status = "corrupt")
          => /\ call'.op = "add_interaction"
                  => (Len(history') = 1 /\ appended' = history')
             /\ call'.op = "clear" => history' = <<>>
             /\ call'.op = "format_for_context" => (ret' = <<>> /\ history' = <<>>)]_vars

\* an unreadable file was loaded over a log that held turns
C15_Witness ==
  /\ call.op = "load_history"
  /\ file = Corrupt
  /\ clock > 0
  /\ history = <<>>

\* the context part of a prompt that has one
ContextOf(prompt) == SubSeq(prompt, 1, Len(prompt) - 3)

\* C16: a write of the history file that fails during an append or a clear is
\* swallowed: the dispatch still returns its response to the loop, the new turn
\* is the last of the log in memory (the log is empty after a clear), and the
\* file is what it was before the write or unreadable; the prompt built next
\* lists that turn in its context.
C16_WriteFailureKeepsMemory ==
  /\ [][(Dispatching /\ clock' = clock + 1 /\ save_error')
          => /\ Len(history') = Min(Len(history) + 1, max_length)
             /\ Last(history') = Turn(clock, query, response')
             /\ file' \in {file, Corrupt}
             /\ running' = running]_vars
  /\ [][(Dispatching /\ Highest[query] = "clear history" /\ save_error')
          => /\ history' = <<>>
             /\ response' = "I've cleared our conversation history."
             /\ file' \in {file, Corrupt}]_vars
  /\ [][(Dispatching /\ prompts' # prompts /\ save_error /\ history # <<>>)
          => /\ Last(history) = Last(appended)
             /\ Last(TurnsIn(ContextOf(Last(prompts')))) =
                  <<Last(history).user_query, Last(history).assistant_response>>]_vars

\* the turn whose write failed is in the context of the next prompt
C16_Witness ==
  /\ pc = "speak"
  /\ save_error
  /\ clock = 1
  /\ file # Stored(history)
  /\ response = ModelError
  /\ Len(prompts) = 1
  /\ Last(TurnsIn(ContextOf(prompts[1]))) = <<appended[1].user_query, appended[1].assistant_response>>

\* the response of a stop command has been spoken
StopSpoken == ~running /\ pc \in {"top", "done", "exited"}

\* C17: once a stop command has been dispatched and its response spoken, the
\* loop never again listens for the wake word, captures a query, dispatches
\* one or sends a prompt to the model; and, speak returning, every run in
\* which a stop command is dispatched reaches the end of main.
C17_StopEndsTheLoop ==
  /\ [][StopSpoken
          => /\ pc' \in {pc, "done", "exited"}
             /\ pc = "exited" => pc' = "exited"
             /\ StopSpoken'
             /\ UNCHANGED <<captured, query, response, prompts, spoken, sent,
                            fetched, store>>]_vars
  /\ (~running ~> pc = "exited")

C17_Witness ==
  /\ pc = "exited"
  /\ ~running
  /\ query = "Stop"
  /\ spoken = <<"Goodbye! Shutting down.">>
  /\ prompts = <<>>

\* run() has just come back from listen_for_query
QueryCaptured == pc = "query" /\ pc' # pc

\* what listen_for_query must say for each failure of the capture
Apology ==
  [e \in CaptureErrors |->
     CASE e = "WaitTimeoutError" -> "Sorry, something went wrong."
       [] e = "UnknownValueError" -> "Sorry, I didn't understand that."
       [] e = "RequestError" ->
            "Sorry, I couldn't process that. Check your network connection."]

\* C18: when the capture of the query fails, by timeout, unrecognised audio or
\* a failed request to the recogniser, one apology is spoken and the loop goes
\* back to its top without dispatching; the apology for the failed request is
\* a text of its own, different from the other two; no command runs, no
\* prompt goes to the model, and the log and the running flag stay as they
\* were.
C18_CaptureFailureIsRecovered ==
  /\ [][(QueryCaptured /\ captured'.kind \in CaptureErrors)
          => /\ pc' = "top"
             /\ query' = None
             /\ spoken' = Append(spoken, Apology[captured'.kind])
             /\ "listening" \in cues'
             /\ UNCHANGED <<store, running, response, prompts, sent, fetched,
                            timer_threads>>]_vars
  /\ [](\A e \in CaptureErrors \ {"RequestError"} : Apology["RequestError"] # Apology[e])

C18_Witness ==
  /\ pc = "top"
  /\ captured = Failed("RequestError")
  /\ spoken = <<"Sorry, I couldn't process that. Check your network connection.">>
  /\ "wake" \in cues
  /\ query = None
  /\ running

\* the next blocking call of run() can be made
LoopCanStep ==
  /\ pc = "top" => ENABLED LoopTop
  /\ pc = "wake" => ENABLED ListenForWakeWord
  /\ pc = "query" => ENABLED ListenForQuery
  /\ pc = "dispatch" => ENABLED Dispatch
  /\ pc = "speak" => ENABLED Speak
  /\ pc = "done" => ENABLED Cleanup

\* C19: the tones and the timer callbacks run on threads of their own. A call
\* that starts a tone returns while the tone thread is still running, and
\* whatever tone thread is still running and whatever timer callback has not
\* returned, the loop can make its next step: listen for the wake word,
\* capture, dispatch, speak, test the flag, or leave.
C19_ThreadsNeverStallTheLoop ==
  /\ [][(pc' # pc /\ cues' \ cues # {}) => tone_alive']_vars
  /\ []LoopCanStep

\* a tone is still playing and a timer callback has not returned while the
\* loop is back at listening for the wake word
C19_Witness ==
  /\ pc = "wake"
  /\ tone_alive
  /\ Len(timer_threads) = 1
  /\ timer_threads[1].state = "speaking"

\* run() has just come back from listen_for_wake_word
WakeCaptured == pc = "wake" /\ pc' # pc

\* the utterances of WakeTexts that hold the wake word, in any letter case
WithWakeWord == {"python", "Hey Python"}

\* C20: when the capture for the wake word times out, is not recognised, fails
\* otherwise, or gives an utterance without the wake word, the loop goes back
\* to its top to listen again: nothing is spoken, no tone is started, nothing
\* is dispatched, and the log and the running flag stay as they were. Only an
\* utterance that holds the wake word starts the wake tone and takes the loop
\* to the capture of the query; it changes nothing else.
C20_OnlyWakeWordWakes ==
  [][WakeCaptured
       => /\ IF captured'.kind = "text" /\ captured'.text \in WithWakeWord
             THEN /\ pc' = "query"
                  /\ cues' = cues \cup {"wake"}
                  /\ tone_alive'
             ELSE /\ pc' = "top"
                  /\ cues' = cues
                  /\ tone_alive' = tone_alive
          /\ UNCHANGED <<store, running, query, response, spoken, prompts, sent,
                         fetched, timer_threads>>]_vars

\* an utterance without the wake word was heard and the loop is back at its top
C20_Witness ==
  /\ pc = "top"
  /\ captured = Heard("hello")
  /\ running
  /\ cues = {}
  /\ spoken = <<>>
  /\ query = None

\* a step of a Timer thread or of a tone thread
ThreadStep == pc' = pc /\ (timer_threads' # timer_threads \/ (tone_alive /\ ~tone_alive'))

\* C21: the log has one writer. The log in memory and the history file change
\* only in a dispatch step of the loop: by the append that follows an answer
\* of the model, or by the clear-history command; no step of a Timer thread or
\* of a tone thread changes either of them.
C21_LogHasOneWriter ==
  /\ [][(history' # history \/ file' # file)
          => /\ Dispatching
             /\ \/ /\ Highest[query] = "clear history"
                   /\ history' = <<>>
                \/ /\ clock' = clock + 1
                   /\ Len(prompts') = Len(prompts) + 1
                   /\ response' # ModelError
                   /\ Last(history') = Turn(clock, query, response')]_vars
  /\ [][ThreadStep => UNCHANGED <<history, file, save_error, clock, appended>>]_vars

\* a Timer callback has run to its end and a tone thread has ended in a run
\* whose log holds a turn the loop appended and wrote
C21_Witness ==
  /\ Len(timer_threads) = 2
  /\ timer_threads[1].state = "fired"
  /\ timer_threads[2].state = "speaking"
  /\ ~tone_alive
  /\ clock = 1
  /\ Last(history) = appended[1]
  /\ file = Stored(history)

\* C22: self.running changes only in a dispatch step of the loop whose
\* utterance the stop command takes, and only from true to false: no other
\* command, no failed capture, no failure of the model, no Timer callback and
\* no tone changes it, and once false it stays false. The flag is read only
\* by the test at the top of an iteration: that test alone decides between
\* listening again and leaving, and the response of the stop command is spoken
\* like any other although the flag is already false.
C22_RunningFlagDiscipline ==
  /\ [][running' # running
          => /\ Dispatching
             /\ Highest[query] = "stop"
             /\ running /\ ~running']_vars
  /\ [][~running => ~running']_vars
  /\ [][(pc = "top" /\ pc' # pc) => pc' = (IF running THEN "wake" ELSE "done")]_vars
  /\ [][pc' # pc => (pc' = "done" <=> (pc = "top" /\ ~running))]_vars
  /\ [][(pc = "speak" /\ pc' # pc)
          => /\ pc' = "top"
             /\ spoken' = Append(spoken, response)]_vars

\* a model failure, a Timer callback that returned and an ended tone have all
\* happened and the flag is still set
C22_Witness ==
  /\ running
  /\ pc = "top"
  /\ response = ModelError
  /\ Len(timer_threads) > 0
  /\ timer_threads[1].state = "fired"
  /\ ~tone_alive

\* C23: an utterance is dispatched only in an iteration in which the wake
\* word was heard first, and it is the non-empty text of the capture made
\* after that, never the utterance that held the wake word; in an iteration
\* in which the wake word was not heard nothing is dispatched, no prompt goes
\* to the model and no turn is appended.
C23_DispatchOnlyAfterWake ==
  /\ [][(pc' = "query" /\ pc # "query")
          => /\ pc = "wake"
             /\ captured'.kind = "text"
             /\ captured'.text \in WithWakeWord
             /\ "wake" \in cues']_vars
  /\ [][(pc' = "dispatch" /\ pc # "dispatch")
          => /\ pc = "query"
             /\ "wake" \in cues
             /\ captured.text \in WithWakeWord
             /\ captured'.kind = "text"
             /\ captured'.text # ""
             /\ query' = captured'.text]_vars
  /\ [][(Dispatching \/ Len(prompts') > Len(prompts) \/ clock' # clock)
          => /\ pc = "dispatch"
             /\ "wake" \in cues
             /\ captured = Heard(query)
             /\ query \in Queries \ {""}
             /\ query \notin WakeTexts]_vars
  /\ []("wake" \notin cues => (pc \in {"top", "wake", "done", "exited"} /\ prompts = <<>>))

\* the wake word was heard, a second capture gave a query, and it is now
\* being dispatched
C23_Witness ==
  /\ pc = "dispatch"
  /\ "wake" \in cues
  /\ captured = Heard("tell me a joke")
  /\ query = "tell me a joke"
  /\ prompts = <<>>

\* how far a Timer is: waiting, in its callback, over
Rank(state) == CASE state = "pending" -> 0 [] state = "speaking" -> 1 [] state = "fired" -> 2

\* the Timers that a step moved on
Moved == {i \in 1..Len(timer_threads) : timer_threads'[i] # timer_threads[i]}

\* every Timer is one-shot and none replaces or cancels another: a step adds
\* at most one pending Timer and leaves the others as they are, or moves one
\* Timer one stage on, from waiting into its callback or from its callback to
\* its end, and never back
OneShot ==
  /\ Len(timer_threads') \in {Len(timer_threads), Len(timer_threads) + 1}
  /\ Cardinality(Moved) <= 1
  /\ \A i \in Moved :
       /\ timer_threads'[i].interval = timer_threads[i].interval
       /\ Rank(timer_threads'[i].state) = Rank(timer_threads[i].state) + 1
  /\ Len(timer_threads') > Len(timer_threads)
       => /\ Moved = {}
          /\ Last(timer_threads').state = "pending"

\* C24 as stated: every Timer is one-shot, several can be pending together
\* without one replacing or cancelling another, and a Timer still pending
\* when the loop is left never fires afterwards.
C24_OneShotDiscardedAtLoopEnd ==
  /\ [][OneShot]_vars
  /\ [][(pc \in {"done", "exited"}) => timer_threads' = timer_threads]_vars

\* C24 as amended: every Timer is one-shot, several can be pending together
\* without one replacing or cancelling another, and a Timer still pending
\* when main returns and the process exits never fires afterwards; between
\* the end of the loop and that exit a pending Timer can still fire.
C24_OneShotDiscardedAtExit ==
  /\ [][OneShot]_vars
  /\ [][(pc = "exited") => timer_threads' = timer_threads]_vars

\* the process has exited with the first Timer still pending, the second one
\* having fired while the first was pending
C24_Witness ==
  /\ pc = "exited"
  /\ Len(timer_threads) = 2
  /\ timer_threads[1].state = "pending"
  /\ timer_threads[2].state = "fired"
====
